---- MODULE Spec2Model ----
(***************************************************************************)
(* Model of hedging_calculator.py, a Streamlit script.  Every user         *)
(* interaction (editing a widget, clicking the button, a plain rerun)      *)
(* re-executes the whole script from top to bottom against the session     *)
(* state kept between runs.  One action = one interaction followed by the  *)
(* complete script run it triggers.                                        *)
(*                                                                         *)
(* Number representation.  The ETF price is a float shown with two         *)
(* decimals; it is modelled in hundredths (cents).  Index and moving       *)
(* average are integers (points).  required_lots_float is kept as the      *)
(* exact fraction required_lots_num / required_lots_den; binary floating   *)
(* point rounding of the product and the quotient is not modelled.         *)
(***************************************************************************)
EXTENDS Integers, FiniteSets, Sequences, TLC

VARIABLES
    session_state,   \* st.session_state: function from the keys present to values
    widgets,         \* values held by the keyless widgets between runs
    fetched,         \* whether the two fetches of the last run succeeded, and the notices shown
    sidebar,         \* is_default_ma / ma_display_value of the last run
    run_status,      \* how far the last run got
    inputs,          \* holding_lots, price_631, current_index, current_status, ma_price_twii
    sizing,          \* lines 205-213 of the last run
    recommendation,  \* lines 222-257 of the last run
    col7,            \* the lot-count metric, lines 288-301
    ma_loaded,       \* history: some index/MA fetch has succeeded
    prev_eval        \* history: inputs and lot count of the previous sizing

vars == << session_state, widgets, fetched, sidebar, run_status, inputs, sizing,
           recommendation, col7, ma_loaded, prev_eval >>

\* ------------------------------------------------------------------ constants
LEVERAGE_RATIO == 2
MTX_POINT_VALUE == 50
INITIAL_MA_TWII_DEFAULT == 19000
INITIAL_INDEX_TWII_DEFAULT == 19500
\* 50.0 yuan, in cents
INITIAL_PRICE_631_DEFAULT == 5000
SharesPerLot == 1000
CentsPerYuan == 100
MaDaysMin == 1
MaDaysDefault == 13
HoldingLotsMin == 1
HoldingLotsDefault == 7
\* min_value=10.0, in cents
Price631Min == 1000
CurrentIndexMin == 5000

\* ------------------------------------------------------------------ bounds
MaxHoldingLots == 2
MaxMaDaysChoices == 1

\* ------------------------------------------------------------------ input domains
\* What the user may type into the three number inputs (values under the
\* minimum are typed too; the widget decides what to do with them).
HoldingEntries == (0 .. MaxHoldingLots) \cup {HoldingLotsDefault}
PriceEntries == {0, 950, 5000, 12500}
IndexEntries == {0, 4990, 5000, 19000, 19500}
MaDaysEntries == {0} \cup {MaDaysDefault + 7 * k : k \in 0 .. MaxMaDaysChoices}
StatusOptions == {"Unhedged", "Hedged"}

\* What yfinance may deliver.  TWII closes and rolling means in tenths of a
\* point, the ETF close in tenths of a cent.  samples is the number of daily
\* rows in the 6-month frame.  A close is a number (possibly a bad tick of 0);
\* the @st.cache_data wrappers only repeat an earlier delivery and are covered
\* by the free choice of what is delivered.
TwiiData ==
    {[empty |-> TRUE, samples |-> 0, close |-> 0, ma |-> 0]}
    \cup {[empty |-> FALSE, samples |-> 15, close |-> 194995, ma |-> 195000]}
    \cup {[empty |-> FALSE, samples |-> 120, close |-> c, ma |-> m] :
             c \in {0, 50000, 194995}, m \in {189996, 195000}}
EtfData ==
    {[empty |-> TRUE, close |-> 0]}
    \cup {[empty |-> FALSE, close |-> c] : c \in {0, 50000, 124995}}

\* ------------------------------------------------------------------ helpers
\* round(x, n) of Python / numpy on an exact tie: round half to even.
RoundHalfEven(x, unit) ==
    LET q == x \div unit
        r == x % unit
    IN  IF 2 * r < unit THEN q
        ELSE IF 2 * r > unit THEN q + 1
        ELSE IF q % 2 = 0 THEN q ELSE q + 1

None == [ok |-> FALSE, latest |-> 0, ma |-> 0]

\* fetch_data_for_exposure: latest close rounded to 2 decimals, or None.
fetch_data_for_exposure(data) ==
    IF data.empty THEN None
    ELSE [ok |-> TRUE, latest |-> RoundHalfEven(data.close, 10), ma |-> 0]

\* fetch_twii_and_calculate_ma: (int(round(close)), int(round(ma))) or (None, None).
\* With fewer rows than the window the rolling mean is NaN, int(NaN) raises,
\* and the except branch returns (None, None).
fetch_twii_and_calculate_ma(data, ma_days) ==
    IF data.empty THEN None
    ELSE IF data.samples < ma_days THEN None
    ELSE [ok |-> TRUE, latest |-> RoundHalfEven(data.close, 10),
          ma |-> RoundHalfEven(data.ma, 10)]

\* ------------------------------------------------------------------ session state
\* Lines 90-95: each key gets its initial default only when it is absent.
SetDefault(s, key, value) == IF key \in DOMAIN s THEN s ELSE s @@ (key :> value)

InitSessionState(s) ==
    SetDefault(SetDefault(SetDefault(s,
        "price_631_default", INITIAL_PRICE_631_DEFAULT),
        "index_twii_default", INITIAL_INDEX_TWII_DEFAULT),
        "ma_price_twii", INITIAL_MA_TWII_DEFAULT)

\* Variant: the fetch result is stored without looking at whether it came back.
UpdateIndexAndMaUnchecked(s, twii) ==
    [s EXCEPT !["index_twii_default"] = twii.latest, !["ma_price_twii"] = twii.ma]

\* Lines 103-111: index and MA are stored only when both came back.
UpdateIndexAndMa(s, twii) ==
    IF twii.ok
    THEN [s EXCEPT !["index_twii_default"] = twii.latest, !["ma_price_twii"] = twii.ma]
    ELSE s

TwiiNotice(twii) == IF twii.ok THEN "info" ELSE "warning"

\* Lines 115-122: the button handler.
UpdatePrice631(s, button, etf) ==
    IF button /\ etf.ok THEN [s EXCEPT !["price_631_default"] = etf.latest] ELSE s

EtfNotice(button, etf) ==
    IF ~button THEN "none" ELSE IF etf.ok THEN "success" ELSE "warning"

\* ------------------------------------------------------------------ sidebar
\* Lines 133-146.
IsDefaultMa(s) == s["ma_price_twii"] = INITIAL_MA_TWII_DEFAULT

MaDisplay(s) ==
    IF IsDefaultMa(s)
    THEN [is_default_ma |-> TRUE, shown_as |-> "default", points |-> INITIAL_MA_TWII_DEFAULT]
    ELSE [is_default_ma |-> FALSE, shown_as |-> "computed", points |-> s["ma_price_twii"]]

\* ------------------------------------------------------------------ widgets
\* A number input holds no user value until the user edits it.
Untouched == -1

\* Variant: a number input without a minimum.
AcceptsAnything(v, min_value) == TRUE

\* min_value of st.number_input: a value under the minimum is not accepted,
\* neither as the default (the call raises) nor from the user.
Accepts(v, min_value) == v >= min_value

\* st.number_input(label, min_value, value): raises when the default is under
\* the minimum, otherwise the user's value if there is one, else the default.
NumberInput(held, value, min_value) ==
    IF ~Accepts(value, min_value) THEN [raised |-> TRUE, v |-> 0]
    ELSE IF held = Untouched THEN [raised |-> FALSE, v |-> value]
    ELSE [raised |-> FALSE, v |-> held]

\* The label and the default of the price and index inputs contain the session
\* value, and the widgets have no key: a changed session value makes a new
\* widget, which starts from its default.
Held(held, before, after, key) ==
    IF key \in DOMAIN before /\ before[key] = after[key] THEN held ELSE Untouched

\* ------------------------------------------------------------------ sizing
\* Variant: the quotient truncated instead of rounded up.
NpFloor(q) == q.num \div q.den

\* Line 213, np.ceil of the quotient q = num / den (den > 0).
NpCeil(q) ==
    IF q.num % q.den = 0 THEN q.num \div q.den ELSE (q.num \div q.den) + 1

\* Variant: the division the wrong way round.
RequiredLotsInverted(effective_exposure, mtx_contract_value) ==
    [num |-> mtx_contract_value * CentsPerYuan, den |-> effective_exposure]

\* Line 211, effective_exposure / mtx_contract_value.  The exposure is in
\* cents and the contract value in yuan, hence the factor on the divisor.
RequiredLotsFloat(effective_exposure, mtx_contract_value) ==
    [num |-> effective_exposure, den |-> mtx_contract_value * CentsPerYuan]

NotSized ==
    [computed |-> FALSE, raised |-> "none", nominal_value_1x |-> 0,
     effective_exposure |-> 0, mtx_contract_value |-> 0,
     required_lots_float |-> [num |-> 0, den |-> 1], required_lots_ceil |-> 0]

\* Variant: a zero contract value quietly gives zero lots.
ComputeSizingCoerced(holding_lots, price_631, current_index) ==
    LET nominal_value_1x == holding_lots * SharesPerLot * price_631
        effective_exposure == nominal_value_1x * LEVERAGE_RATIO
        mtx_contract_value == current_index * MTX_POINT_VALUE
        required_lots_float ==
            IF mtx_contract_value = 0 THEN [num |-> 0, den |-> 1]
            ELSE RequiredLotsFloat(effective_exposure, mtx_contract_value)
    IN  [computed |-> TRUE, raised |-> "none",
         nominal_value_1x |-> nominal_value_1x,
         effective_exposure |-> effective_exposure,
         mtx_contract_value |-> mtx_contract_value,
         required_lots_float |-> required_lots_float,
         required_lots_ceil |-> NpCeil(required_lots_float)]

\* Lines 205-213.  effective_exposure is a Python float and mtx_contract_value
\* a Python int: dividing by a zero contract value raises ZeroDivisionError
\* and nothing after line 211 is computed.
ComputeSizing(holding_lots, price_631, current_index) ==
    LET nominal_value_1x == holding_lots * SharesPerLot * price_631
        effective_exposure == nominal_value_1x * LEVERAGE_RATIO
        mtx_contract_value == current_index * MTX_POINT_VALUE
        required_lots_float == RequiredLotsFloat(effective_exposure, mtx_contract_value)
    IN  IF mtx_contract_value = 0
        THEN [NotSized EXCEPT !.raised = "ZeroDivisionError",
                              !.nominal_value_1x = nominal_value_1x,
                              !.effective_exposure = effective_exposure]
        ELSE [computed |-> TRUE, raised |-> "none",
              nominal_value_1x |-> nominal_value_1x,
              effective_exposure |-> effective_exposure,
              mtx_contract_value |-> mtx_contract_value,
              required_lots_float |-> required_lots_float,
              required_lots_ceil |-> NpCeil(required_lots_float)]

\* ------------------------------------------------------------------ signal and action
\* Variant: equality counted as bullish.
MaSignalAtOrAbove(current_index, ma_price_twii) ==
    IF current_index >= ma_price_twii
    THEN [ma_signal_auto |-> "Bullish", is_bullish |-> TRUE]
    ELSE [ma_signal_auto |-> "Bearish", is_bullish |-> FALSE]

\* Lines 227-235.
MaSignal(current_index, ma_price_twii) ==
    IF current_index > ma_price_twii
    THEN [ma_signal_auto |-> "Bullish", is_bullish |-> TRUE]
    ELSE IF current_index <= ma_price_twii
    THEN [ma_signal_auto |-> "Bearish", is_bullish |-> FALSE]
    ELSE [ma_signal_auto |-> "Undecided", is_bullish |-> FALSE]

\* Variant: the bullish, unhedged cell also suggests the rounded-up count.
ResolveActionAlwaysLots(is_bullish, current_status, required_lots_ceil) ==
    IF is_bullish
    THEN IF current_status = "Unhedged"
         THEN [action_required |-> "Maintain", icon |-> "green",
               suggested_lots |-> required_lots_ceil]
         ELSE [action_required |-> "Close", icon |-> "green",
               suggested_lots |-> required_lots_ceil]
    ELSE IF current_status = "Unhedged"
         THEN [action_required |-> "Open", icon |-> "red",
               suggested_lots |-> required_lots_ceil]
         ELSE [action_required |-> "HoldHedge", icon |-> "yellow",
               suggested_lots |-> required_lots_ceil]

\* Lines 222-223 and 243-257.  The four action texts are named by what they say.
ResolveAction(is_bullish, current_status, required_lots_ceil) ==
    IF is_bullish
    THEN IF current_status = "Unhedged"
         THEN [action_required |-> "Maintain", icon |-> "green", suggested_lots |-> 0]
         ELSE IF current_status = "Hedged"
         THEN [action_required |-> "Close", icon |-> "green",
               suggested_lots |-> required_lots_ceil]
         ELSE [action_required |-> "", icon |-> "none", suggested_lots |-> 0]
    ELSE IF current_status = "Unhedged"
         THEN [action_required |-> "Open", icon |-> "red",
               suggested_lots |-> required_lots_ceil]
         ELSE IF current_status = "Hedged"
         THEN [action_required |-> "HoldHedge", icon |-> "yellow",
               suggested_lots |-> required_lots_ceil]
         ELSE [action_required |-> "", icon |-> "none", suggested_lots |-> 0]

\* Lines 261-266: the banner the action is shown in.
Banner(icon) ==
    IF icon = "red" THEN "error" ELSE IF icon = "green" THEN "success" ELSE "warning"

\* Only the close-the-hedge text contains the word the display looks for.
ContainsCloseWord(action_required) == action_required = "Close"

\* Variant: an off-by-one threshold in the display.
Col7MetricAboveOne(action_required, suggested_lots) ==
    IF suggested_lots > 1 /\ action_required # "Close"
    THEN [rendered |-> TRUE, kind |-> "open", lots |-> suggested_lots]
    ELSE IF action_required = "Close"
    THEN [rendered |-> TRUE, kind |-> "close", lots |-> suggested_lots]
    ELSE [rendered |-> TRUE, kind |-> "zero", lots |-> 0]

\* Lines 288-301.
Col7Metric(action_required, suggested_lots) ==
    IF suggested_lots > 0 /\ ~ContainsCloseWord(action_required)
    THEN [rendered |-> TRUE, kind |-> "open", lots |-> suggested_lots]
    ELSE IF ContainsCloseWord(action_required)
    THEN [rendered |-> TRUE, kind |-> "close", lots |-> suggested_lots]
    ELSE [rendered |-> TRUE, kind |-> "zero", lots |-> 0]

NoRecommendation ==
    [ma_signal_auto |-> "", is_bullish |-> FALSE, action_required |-> "",
     icon |-> "none", suggested_lots |-> 0, banner |-> "none"]
NoCol7 == [rendered |-> FALSE, kind |-> "none", lots |-> 0]
NoInputs ==
    [holding_lots |-> 0, price_631 |-> 0, current_index |-> 0,
     current_status |-> "Unhedged", ma_price_twii |-> 0]

\* Lines 222-257 as one record.
Recommend(current_index, ma_price_twii, current_status, required_lots_ceil) ==
    LET sig == MaSignal(current_index, ma_price_twii)
        act == ResolveAction(sig.is_bullish, current_status, required_lots_ceil)
    IN  [ma_signal_auto |-> sig.ma_signal_auto, is_bullish |-> sig.is_bullish,
         action_required |-> act.action_required, icon |-> act.icon,
         suggested_lots |-> act.suggested_lots, banner |-> Banner(act.icon)]

\* ------------------------------------------------------------------ one script run
NoFetch == [twii_ok |-> FALSE, twii_notice |-> "none", button |-> FALSE,
            etf_ok |-> FALSE, etf_notice |-> "none"]

\* The value a number input shows: the user's, or the default.
Shown(held, value) == IF held = Untouched THEN value ELSE held

\* Lines 77-304 executed once, with the widget values w the browser sends,
\* the button state, and what yfinance delivers during this run.
RunScript(w, button, twii_data, etf_data) ==
    \E ma_days \in {NumberInput(w.ma_days, MaDaysDefault, MaDaysMin).v} :
    \E twii \in {fetch_twii_and_calculate_ma(twii_data, ma_days)} :
    \E etf \in {IF button THEN fetch_data_for_exposure(etf_data) ELSE None} :
    \E s3 \in {UpdatePrice631(UpdateIndexAndMa(InitSessionState(session_state), twii),
                              button, etf)} :
    \E holding_lots \in {NumberInput(w.holding_lots, HoldingLotsDefault, HoldingLotsMin).v} :
    \E held_price \in {Held(w.price_631, session_state, s3, "price_631_default")} :
    \E held_index \in {Held(w.current_index, session_state, s3, "index_twii_default")} :
    \E price_631 \in {NumberInput(held_price, s3["price_631_default"], Price631Min)} :
    \E current_index \in {NumberInput(held_index, s3["index_twii_default"], CurrentIndexMin)} :
    \E rendered \in {~price_631.raised /\ ~current_index.raised} :
    \E sz \in {IF rendered
               THEN ComputeSizing(holding_lots, price_631.v, current_index.v)
               ELSE NotSized} :
    \E rec \in {IF sz.computed
                THEN Recommend(current_index.v, s3["ma_price_twii"], w.current_status,
                               sz.required_lots_ceil)
                ELSE NoRecommendation} :
        /\ session_state' = s3
        /\ fetched' = [twii_ok |-> twii.ok, twii_notice |-> TwiiNotice(twii),
                       button |-> button, etf_ok |-> etf.ok,
                       etf_notice |-> EtfNotice(button, etf)]
        /\ sidebar' = MaDisplay(s3)
        \* a widget the run did not reach is forgotten
        /\ widgets' = [w EXCEPT
               !.price_631 = IF price_631.raised THEN Untouched ELSE held_price,
               !.current_index = IF rendered THEN held_index ELSE Untouched]
        /\ run_status' = IF price_631.raised THEN "error_price_631"
                         ELSE IF current_index.raised THEN "error_current_index"
                         ELSE IF ~sz.computed THEN "error_division"
                         ELSE "ok"
        /\ inputs' = IF rendered
                     THEN [holding_lots |-> holding_lots, price_631 |-> price_631.v,
                           current_index |-> current_index.v,
                           current_status |-> w.current_status,
                           ma_price_twii |-> s3["ma_price_twii"]]
                     ELSE NoInputs
        /\ sizing' = sz
        /\ recommendation' = rec
        /\ col7' = IF sz.computed
                   THEN Col7Metric(rec.action_required, rec.suggested_lots)
                   ELSE NoCol7
        /\ ma_loaded' = (ma_loaded \/ twii.ok)
        /\ UNCHANGED prev_eval

\* ------------------------------------------------------------------ the session
Init ==
    /\ session_state = [k \in {} |-> 0]
    /\ widgets = [ma_days |-> Untouched, current_status |-> "Unhedged",
                  holding_lots |-> Untouched, price_631 |-> Untouched,
                  current_index |-> Untouched]
    /\ fetched = NoFetch
    /\ sidebar = [is_default_ma |-> TRUE, shown_as |-> "none", points |-> 0]
    /\ run_status = "not_run"
    /\ inputs = NoInputs
    /\ sizing = NotSized
    /\ recommendation = NoRecommendation
    /\ col7 = NoCol7
    /\ ma_loaded = FALSE
    /\ prev_eval = [computed |-> FALSE, holding_lots |-> 0, price_631 |-> 0,
                    current_index |-> 0, required_lots_ceil |-> 0]

\* Opening the page, or rerunning it without touching anything.
Rerun ==
    \E td \in TwiiData : RunScript(widgets, FALSE, td, [empty |-> TRUE, close |-> 0])

\* Line 115: the price button.
ClickButton ==
    /\ run_status # "not_run"
    /\ \E td \in TwiiData, ed \in EtfData : RunScript(widgets, TRUE, td, ed)

\* Lines 77-83.
EditMaDays ==
    /\ run_status # "not_run"
    /\ \E d \in MaDaysEntries, td \in TwiiData :
          /\ Accepts(d, MaDaysMin)
          /\ d # Shown(widgets.ma_days, MaDaysDefault)
          /\ RunScript([widgets EXCEPT !.ma_days = d], FALSE, td,
                       [empty |-> TRUE, close |-> 0])

\* Lines 159-163.
SelectStatus ==
    /\ run_status # "not_run"
    /\ \E c \in StatusOptions, td \in TwiiData :
          /\ c # widgets.current_status
          /\ RunScript([widgets EXCEPT !.current_status = c], FALSE, td,
                       [empty |-> TRUE, close |-> 0])

\* Lines 176-181.
EditHoldingLots ==
    /\ run_status # "not_run"
    /\ \E h \in HoldingEntries, td \in TwiiData :
          /\ Accepts(h, HoldingLotsMin)
          /\ h # Shown(widgets.holding_lots, HoldingLotsDefault)
          /\ RunScript([widgets EXCEPT !.holding_lots = h], FALSE, td,
                       [empty |-> TRUE, close |-> 0])

\* Lines 183-189: the input exists only if the last run rendered it.
EditPrice631 ==
    /\ run_status \in {"ok", "error_current_index"}
    /\ \E p \in PriceEntries, td \in TwiiData :
          /\ Accepts(p, Price631Min)
          /\ p # Shown(widgets.price_631, session_state["price_631_default"])
          /\ RunScript([widgets EXCEPT !.price_631 = p], FALSE, td,
                       [empty |-> TRUE, close |-> 0])

\* Lines 194-199.
EditCurrentIndex ==
    /\ run_status = "ok"
    /\ \E i \in IndexEntries, td \in TwiiData :
          /\ Accepts(i, CurrentIndexMin)
          /\ i # Shown(widgets.current_index, session_state["index_twii_default"])
          /\ RunScript([widgets EXCEPT !.current_index = i], FALSE, td,
                       [empty |-> TRUE, close |-> 0])

Next ==
    \/ Rerun
    \/ ClickButton
    \/ EditMaDays
    \/ SelectStatus
    \/ EditHoldingLots
    \/ EditPrice631
    \/ EditCurrentIndex

Spec == Init /\ [][Next]_vars

\* ------------------------------------------------------------------ the computation on its own
\* Lines 205-301 applied to freely chosen arguments, without the widgets in
\* front of them; prev_eval remembers the sizing before this one.
SizingHoldings == (1 .. MaxHoldingLots) \cup {HoldingLotsDefault}
SizingPrices == {5000, 12500}
SizingIndexes == {0, 5000, 19000, 19500}
SizingAverages == {19000, 19500}

EvaluateCore ==
    \E h \in SizingHoldings, p \in SizingPrices, i \in SizingIndexes,
       m \in SizingAverages, c \in StatusOptions :
    \E sz \in {ComputeSizing(h, p, i)} :
    \E rec \in {IF sz.computed THEN Recommend(i, m, c, sz.required_lots_ceil)
                ELSE NoRecommendation} :
        /\ inputs' = [holding_lots |-> h, price_631 |-> p, current_index |-> i,
                      current_status |-> c, ma_price_twii |-> m]
        /\ sizing' = sz
        /\ recommendation' = rec
        /\ col7' = IF sz.computed
                   THEN Col7Metric(rec.action_required, rec.suggested_lots)
                   ELSE NoCol7
        /\ run_status' = IF sz.computed THEN "ok" ELSE "error_division"
        /\ prev_eval' = [computed |-> sizing.computed,
                         holding_lots |-> inputs.holding_lots,
                         price_631 |-> inputs.price_631,
                         current_index |-> inputs.current_index,
                         required_lots_ceil |-> sizing.required_lots_ceil]
        /\ UNCHANGED << session_state, widgets, fetched, sidebar, ma_loaded >>

SizingNext == EvaluateCore

SizingSpec == Init /\ [][SizingNext]_vars

\* ------------------------------------------------------------------ properties
Evaluated == sizing.computed

\* C1: every evaluation follows the trend x hedge-state table: Bullish/Unhedged
\* gives Maintain with 0 lots, Bullish/Hedged gives Close, Bearish/Unhedged
\* gives Open, Bearish/Hedged gives HoldHedge, the last three with
\* required_lots_ceil lots.
DecisionTable ==
    Evaluated =>
        LET trend == recommendation.ma_signal_auto
            state == inputs.current_status
            act == recommendation.action_required
            lots == recommendation.suggested_lots
        IN  /\ (trend = "Bullish" /\ state = "Unhedged") => (act = "Maintain" /\ lots = 0)
            /\ (trend = "Bullish" /\ state = "Hedged") =>
                   (act = "Close" /\ lots = sizing.required_lots_ceil)
            /\ (trend = "Bearish" /\ state = "Unhedged") =>
                   (act = "Open" /\ lots = sizing.required_lots_ceil)
            /\ (trend = "Bearish" /\ state = "Hedged") =>
                   (act = "HoldHedge" /\ lots = sizing.required_lots_ceil)
            /\ (lots # sizing.required_lots_ceil) =>
                   (trend = "Bullish" /\ state = "Unhedged")

\* Scenario D: index 19500 over MA 19000, unhedged, a positive lot count forced to 0.
MaintainForcedToZero ==
    /\ Evaluated
    /\ inputs.current_index = 19500 /\ inputs.ma_price_twii = 19000
    /\ inputs.current_status = "Unhedged"
    /\ recommendation.action_required = "Maintain"
    /\ sizing.required_lots_ceil > 0
    /\ recommendation.suggested_lots = 0

\* C2: the signal is Bullish exactly when the index is above the moving
\* average and Bearish exactly when it is at or below it; the third branch is
\* never taken.
TrendClassification ==
    Evaluated =>
        /\ recommendation.ma_signal_auto \in {"Bullish", "Bearish"}
        /\ (recommendation.ma_signal_auto = "Bullish")
               <=> (inputs.current_index > inputs.ma_price_twii)
        /\ (recommendation.ma_signal_auto = "Bearish")
               <=> (inputs.current_index <= inputs.ma_price_twii)
        /\ recommendation.is_bullish <=> (recommendation.ma_signal_auto = "Bullish")

EqualityIsBearish ==
    /\ Evaluated
    /\ inputs.current_index = inputs.ma_price_twii
    /\ recommendation.ma_signal_auto = "Bearish"

DivisionInvalidSurfaced ==
    (run_status # "not_run" /\ inputs.current_index = 0) =>
        /\ sizing.raised = "ZeroDivisionError"
        /\ ~sizing.computed
        /\ run_status = "error_division"
        /\ recommendation = NoRecommendation
        /\ ~col7.rendered

SizedWithZeroIndex ==
    /\ run_status = "error_division"
    /\ inputs.current_index = 0
    /\ inputs.holding_lots >= 1 /\ inputs.price_631 > 0
    /\ sizing.raised = "ZeroDivisionError"

\* C5: nothing is computed from a holding under 1, a price at or under 0 or an
\* index at or under 0: whatever was computed came from positive inputs, and a
\* run whose stored price or index is not positive stops at the input.
InvalidInputRejected ==
    /\ (sizing # NotSized) =>
           /\ inputs.holding_lots >= 1
           /\ inputs.price_631 > 0
           /\ inputs.current_index > 0
    /\ (run_status # "not_run" /\ session_state["price_631_default"] <= 0) =>
           (run_status = "error_price_631" /\ sizing = NotSized)
    /\ (run_status # "not_run" /\ session_state["index_twii_default"] <= 0) =>
           (run_status \in {"error_price_631", "error_current_index"} /\ sizing = NotSized)

ZeroIndexRejected ==
    /\ run_status = "error_current_index"
    /\ session_state["index_twii_default"] = 0
    /\ sizing = NotSized
    /\ ~col7.rendered

\* C6: with the other two inputs unchanged, required_lots_ceil does not fall
\* when holding_lots or the price rises, and does not rise when the index rises.
SameBut(field) ==
    \A f \in {"holding_lots", "price_631", "current_index"} \ {field} :
        prev_eval[f] = inputs[f]

CeilMonotone ==
    (prev_eval.computed /\ Evaluated) =>
        /\ (SameBut("holding_lots") /\ prev_eval.holding_lots <= inputs.holding_lots)
               => prev_eval.required_lots_ceil <= sizing.required_lots_ceil
        /\ (SameBut("price_631") /\ prev_eval.price_631 <= inputs.price_631)
               => prev_eval.required_lots_ceil <= sizing.required_lots_ceil
        /\ (SameBut("current_index") /\ prev_eval.current_index <= inputs.current_index)
               => prev_eval.required_lots_ceil >= sizing.required_lots_ceil

IndexUpLotsDown ==
    /\ prev_eval.computed /\ Evaluated
    /\ SameBut("current_index")
    /\ prev_eval.current_index < inputs.current_index
    /\ prev_eval.required_lots_ceil > sizing.required_lots_ceil

DefaultShownOnlyBeforeLoad ==
    (run_status # "not_run") => (sidebar.is_default_ma <=> ~ma_loaded)

\* C10: with inputs the widgets accept the rounded-up count is at least 1, so
\* 0 lots are suggested exactly for Maintain, and the metric reads "0" exactly
\* for Maintain, "close N" exactly for Close, and "open N" with
\* N = required_lots_ceil for Open and HoldHedge.
LotsDisplay ==
    Evaluated =>
        LET act == recommendation.action_required
        IN  /\ inputs.holding_lots >= HoldingLotsMin
            /\ inputs.price_631 >= Price631Min
            /\ inputs.current_index >= CurrentIndexMin
            /\ sizing.required_lots_ceil >= 1
            /\ (recommendation.suggested_lots = 0) <=> (act = "Maintain")
            /\ (col7.kind = "zero") <=> (act = "Maintain")
            /\ (col7.kind = "close") <=> (act = "Close")
            /\ (col7.kind = "open") <=> (act \in {"Open", "HoldHedge"})
            /\ (col7.kind # "zero") => (col7.lots = sizing.required_lots_ceil)

HoldHedgeShowsOpenCount ==
    /\ Evaluated
    /\ recommendation.action_required = "HoldHedge"
    /\ col7.kind = "open"
    /\ col7.lots = sizing.required_lots_ceil
    /\ col7.lots = 1

====
